---- MODULE Spec2Model ----
(***************************************************************************)
(* Model of the AirDrop contract (unc-airdrop/src/lib.rs).                 *)
(*                                                                         *)
(* The contract state is the LookupMap `accounts` (public key -> escrowed  *)
(* amount).  The host state the contract drives through promises is        *)
(*   keys : the function-call access keys on the contract's own account    *)
(*          (add_access_key_allowance / delete_key batched on              *)
(*          Promise::new(current_account_id())), and                       *)
(*   ops  : the composite create-account promises in flight that carry a   *)
(*          `.then` continuation, each with the arguments bound at         *)
(*          dispatch; a promise leaves ops when its continuation has run.  *)
(* Every entry point runs to completion; a panicking call is rolled back   *)
(* by the host, so it changes nothing but the record of the last call.     *)
(* A key action on the contract's own account is applied where the         *)
(* handler dispatches it: adding a key that is present and deleting a key  *)
(* that is absent leave the key set as it is.                              *)
(* The handlers never look at the key set: a call is modelled with any     *)
(* signer and any predecessor, as the unit tests issue them.               *)
(***************************************************************************)
EXTENDS Integers, Sequences, FiniteSets, TLC

VARIABLES
    accounts,   \* AirDrop.accounts: function, DOMAIN = keys holding an entry
    keys,       \* access keys granted on the contract account
    ops,        \* promises in flight with a continuation, indexed by id
    dispatched, \* number of promises with a continuation dispatched so far
    last,       \* the last step: a call with its inputs, its outcome and
                \* what it dispatched, or the host's resolution of a promise
    runs,       \* history: per promise id, number of continuation runs
    sends,      \* history: per key, number of accepted sends
    debited,    \* history: keys whose entry claim or create_account_and_claim
                \* has removed at least once
    revokes,    \* history: per key, number of delete_key dispatches
    finalized   \* history: keys for which on_account_created_and_claimed
                \* has run with a successful result

vars == <<accounts, keys, ops, dispatched, last, runs, sends, debited,
          revokes, finalized>>

(***************************************************************************)
(* Bounds and scaled constants                                             *)
(***************************************************************************)
\* UncToken is a u128; the model keeps the saturating arithmetic at a
\* narrow width.
MaxAmount == 5
\* Number of accepted send calls in a behaviour.
MaxSends == 2
\* Number of create_account_and_claim promises dispatched in a behaviour.
MaxOps == 2
\* Number of create_account / create_account_advanced promises dispatched
\* in a behaviour.
MaxCreates == 1

\* ACCESS_KEY_ALLOWANCE, scaled.
ACCESS_KEY_ALLOWANCE == 2

PublicKeys == {"K1", "K2"}
\* env::current_account_id()
Contract == "airdrop"
\* Possible predecessors of a call.
Callers == {Contract, "alice"}
\* Account ids passed as arguments; "XYZ" is the malformed one of the tests.
AccountIds == {"bob", "XYZ"}
\* Attached deposits: around the allowance, the threshold of send.
Deposits == (ACCESS_KEY_ALLOWANCE - 1) .. (ACCESS_KEY_ALLOWANCE + 2)
\* Amounts named by a transaction that calls a continuation directly.
DirectAmounts == {1}
OpIds == 1 .. (IF MaxOps > MaxCreates THEN MaxOps ELSE MaxCreates)

\* Variant: upper-case letters are accepted.
IsValidAccountId_Uppercase(a) == a \in {"bob", "alice", Contract, "XYZ"}

\* env::is_valid_account_id
IsValidAccountId(a) == a \in {"bob", "alice", Contract}

\* CreateAccountOptions: which of the three Option fields are Some.
OptionFields == {"contract_bytes", "full_access_keys", "limited_access_keys"}

(***************************************************************************)
(* UncToken arithmetic                                                     *)
(***************************************************************************)
saturating_add(a, b) == IF a + b > MaxAmount THEN MaxAmount ELSE a + b

saturating_sub(a, b) == IF a < b THEN 0 ELSE a - b

(***************************************************************************)
(* LookupMap                                                               *)
(***************************************************************************)
MapInsert(m, k, v) == [x \in (DOMAIN m) \cup {k} |-> IF x = k THEN v ELSE m[x]]

MapRemove(m, k) == [x \in (DOMAIN m) \ {k} |-> m[x]]

MapGetOr(m, k, dflt) == IF k \in DOMAIN m THEN m[k] ELSE dflt

TotalSends == LET RECURSIVE Sum(_)
                  Sum(S) == IF S = {} THEN 0
                            ELSE LET k == CHOOSE x \in S : TRUE
                                 IN  sends[k] + Sum(S \ {k})
              IN  Sum(PublicKeys)

(***************************************************************************)
(* Record of a call                                                        *)
(***************************************************************************)
NoTransfer == <<>>

Call(op, pred, signer, key, account, deposit) ==
    [op |-> op, pred |-> pred, signer |-> signer, key |-> key,
     account |-> account, deposit |-> deposit,
     options |-> {}, outcome |-> "ok", ret |-> "-", amount |-> 0,
     transfer |-> NoTransfer, id |-> 0]

\* A panic aborts the call; the host rolls the call's writes back.  The
\* record of a panicking call holds the inputs the call had read by then.
Panic(call, msg) ==
    /\ last' = [call EXCEPT !.outcome = msg]
    /\ UNCHANGED <<accounts, keys, ops, dispatched, runs, sends, debited,
                   revokes, finalized>>

NextId == dispatched + 1

Init ==
    /\ accounts = <<>>
    /\ keys = {}
    /\ ops = <<>>
    /\ dispatched = 0
    /\ last = Call("new", "-", "-", "-", "-", 0)
    /\ runs = [id \in OpIds |-> 0]
    /\ sends = [k \in PublicKeys |-> 0]
    /\ debited = {}
    /\ revokes = [k \in PublicKeys |-> 0]
    /\ finalized = {}

(***************************************************************************)
(* send                                                                    *)
(***************************************************************************)
\* Variant: the allowance is not taken from the deposit.
SendValue_KeepsAllowance(value, deposit) == saturating_add(value, deposit)

SendValue(value, deposit) ==
    saturating_sub(saturating_add(value, deposit), ACCESS_KEY_ALLOWANCE)

\* Variant: a deposit equal to the allowance is accepted.
DepositCoversAllowance_AtLeast(deposit) == deposit >= ACCESS_KEY_ALLOWANCE

\* assert!(env::attached_deposit() > ACCESS_KEY_ALLOWANCE, ...)
DepositCoversAllowance(deposit) == deposit > ACCESS_KEY_ALLOWANCE

Send(pred, public_key, deposit) ==
    IF ~DepositCoversAllowance(deposit)
    THEN Panic(Call("send", "-", "-", "-", "-", deposit),
               "Attached deposit must be greater than ACCESS_KEY_ALLOWANCE")
    ELSE /\ TotalSends < MaxSends
         /\ LET value == MapGetOr(accounts, public_key, 0) IN
            /\ accounts' = MapInsert(accounts, public_key,
                                     SendValue(value, deposit))
            /\ last' = [Call("send", pred, "-", public_key, "-", deposit)
                        EXCEPT !.amount = value]
         /\ keys' = keys \cup {public_key}
         /\ sends' = [sends EXCEPT ![public_key] = @ + 1]
         /\ UNCHANGED <<ops, dispatched, runs, debited, revokes, finalized>>

(***************************************************************************)
(* claim                                                                   *)
(***************************************************************************)
\* Variant: the entry is zeroed instead of removed.
DebitAll_Zeroes(m, signer) == MapInsert(m, signer, 0)

\* self.accounts.remove(&env::signer_account_pk())
DebitAll(m, signer) == MapRemove(m, signer)

\* Variant: claim leaves the access key in place.
ClaimKeys_Keeps(ks, signer) == ks

\* Promise::new(env::current_account_id()).delete_key(env::signer_account_pk())
ClaimKeys(ks, signer) == ks \ {signer}

\* Variant: the allowance is taken from the transfer once more.
ClaimTransfer_LessAllowance(account_id, amount) ==
    <<account_id, saturating_sub(amount, ACCESS_KEY_ALLOWANCE)>>

\* Promise::new(account_id).transfer(amount)
ClaimTransfer(account_id, amount) == <<account_id, amount>>

\* Variant: any predecessor passes.
FromContract_Anyone(pred) == TRUE

\* env::predecessor_account_id() == env::current_account_id()
FromContract(pred) == pred = Contract

Claim(pred, signer, account_id) ==
    IF ~FromContract(pred)
    THEN Panic(Call("claim", pred, "-", "-", "-", 0),
               "Claim only can come from this account")
    ELSE IF ~IsValidAccountId(account_id)
    THEN Panic(Call("claim", pred, "-", "-", account_id, 0),
               "Invalid account id")
    ELSE IF signer \notin DOMAIN accounts
    THEN Panic(Call("claim", pred, signer, "-", account_id, 0),
               "Unexpected public key")
    ELSE LET amount == accounts[signer] IN
         /\ accounts' = DebitAll(accounts, signer)
         /\ keys' = ClaimKeys(keys, signer)
         /\ revokes' = [revokes EXCEPT ![signer] = @ + 1]
         /\ debited' = debited \cup {signer}
         /\ last' = [Call("claim", pred, signer, "-", account_id, 0)
                     EXCEPT !.amount = amount,
                            !.transfer = ClaimTransfer(account_id, amount)]
         /\ UNCHANGED <<ops, dispatched, runs, sends, finalized>>

(***************************************************************************)
(* create_account_and_claim                                                *)
(***************************************************************************)
\* The continuations of ext_self.
Created == "on_account_created"

Claimed == "on_account_created_and_claimed"

NewOp(kind, signer, caller, amount) ==
    [kind |-> kind, signer |-> signer, caller |-> caller, amount |-> amount,
     result |-> "pending"]

CreateAccountAndClaim(pred, signer, new_account_id) ==
    IF ~FromContract(pred)
    THEN Panic(Call("create_account_and_claim", pred, "-", "-", "-", 0),
               "Create account and claim only can come from this account")
    ELSE IF ~IsValidAccountId(new_account_id)
    THEN Panic(Call("create_account_and_claim", pred, "-", "-",
                    new_account_id, 0),
               "Invalid account id")
    ELSE IF signer \notin DOMAIN accounts
    THEN Panic(Call("create_account_and_claim", pred, signer, "-",
                    new_account_id, 0),
               "Unexpected public key")
    ELSE LET amount == accounts[signer] IN
         /\ NextId <= MaxOps
         /\ accounts' = DebitAll(accounts, signer)
         /\ ops' = MapInsert(ops, NextId, NewOp(Claimed, signer, Contract, amount))
         /\ dispatched' = NextId
         /\ debited' = debited \cup {signer}
         /\ last' = [Call("create_account_and_claim", pred, signer, "-",
                          new_account_id, 0)
                     EXCEPT !.amount = amount, !.id = NextId]
         /\ UNCHANGED <<keys, runs, sends, revokes, finalized>>

(***************************************************************************)
(* create_account, create_account_advanced                                 *)
(***************************************************************************)
CreateAccount(pred, new_account_id, deposit) ==
    IF ~IsValidAccountId(new_account_id)
    THEN Panic(Call("create_account", "-", "-", "-", new_account_id, 0),
               "Invalid account id")
    ELSE /\ NextId <= MaxCreates
         /\ ops' = MapInsert(ops, NextId, NewOp(Created, "-", pred, deposit))
         /\ dispatched' = NextId
         /\ last' = [Call("create_account", pred, "-", "-", new_account_id,
                          deposit)
                     EXCEPT !.amount = deposit, !.id = NextId]
         /\ UNCHANGED <<accounts, keys, runs, sends, debited, revokes, finalized>>

\* Variant: limited_access_keys is not looked at.
is_some_option_NoLimited(options) == \/ "contract_bytes" \in options
                                     \/ "full_access_keys" \in options

\* options: the set of Option fields that are Some.
is_some_option(options) == \/ "contract_bytes" \in options
                           \/ "full_access_keys" \in options
                           \/ "limited_access_keys" \in options

CreateAccountAdvanced(pred, new_account_id, options, deposit) ==
    IF ~is_some_option(options)
    THEN Panic([Call("create_account_advanced", "-", "-", "-", "-", 0)
                EXCEPT !.options = options],
               "Cannot create account with no options")
    ELSE /\ NextId <= MaxCreates
         /\ ops' = MapInsert(ops, NextId, NewOp(Created, "-", pred, deposit))
         /\ dispatched' = NextId
         /\ last' = [Call("create_account_advanced", pred, "-", "-",
                          new_account_id, deposit)
                     EXCEPT !.options = options, !.amount = deposit,
                            !.id = NextId]
         /\ UNCHANGED <<accounts, keys, runs, sends, debited, revokes, finalized>>

(***************************************************************************)
(* Continuations                                                           *)
(***************************************************************************)
\* results: the promise results visible to the call, a sequence over
\* {"Successful", "Failed"}.  is_promise_success asserts there is exactly
\* one and returns whether it is PromiseResult::Successful.
promise_results_count(results) == Len(results)

\* Variant: any result counts as a success.
is_promise_success_Any(results) == Len(results) = 1

\* Variant: the match arms are swapped.
is_promise_success_Inverted(results) == results[1] # "Successful"

is_promise_success(results) == results[1] = "Successful"

Bool(b) == IF b THEN "true" ELSE "false"

\* A panic in a continuation; what becomes of the promise is the host's.
PanicIn(call, msg) ==
    /\ last' = [call EXCEPT !.outcome = msg]
    /\ UNCHANGED <<accounts, keys, sends, debited, revokes, finalized>>

\* Variant: the condition is inverted.
Refund_OnSuccess(creation_succeeded, predecessor_account_id, amount) ==
    IF creation_succeeded THEN <<predecessor_account_id, amount>>
    ELSE NoTransfer

\* if !creation_succeeded { Promise::new(predecessor_account_id).transfer(amount) }
Refund(creation_succeeded, predecessor_account_id, amount) ==
    IF ~creation_succeeded THEN <<predecessor_account_id, amount>>
    ELSE NoTransfer

OnAccountCreated(pred, predecessor_account_id, amount, results, id) ==
    IF ~FromContract(pred)
    THEN PanicIn([Call(Created, pred, "-", "-", "-", 0) EXCEPT !.id = id],
                 "Callback can only be called from the contract")
    ELSE IF promise_results_count(results) # 1
    THEN PanicIn([Call(Created, pred, "-", "-", "-", 0) EXCEPT !.id = id],
                 "Contract expected a result on the callback")
    ELSE LET creation_succeeded == is_promise_success(results) IN
         /\ last' = [Call(Created, pred, "-", "-", predecessor_account_id, 0)
                     EXCEPT !.amount = amount, !.id = id,
                            !.ret = Bool(creation_succeeded),
                            !.transfer = Refund(creation_succeeded,
                                                predecessor_account_id, amount)]
         /\ UNCHANGED <<accounts, keys, sends, debited, revokes, finalized>>

\* Variant: the key is never deleted.
ClaimedDeletesKey_Never(creation_succeeded) == FALSE

\* Variant: the key is deleted whatever the result.
ClaimedDeletesKey_Always(creation_succeeded) == TRUE

\* if creation_succeeded { ...delete_key(env::signer_account_pk()) }
ClaimedDeletesKey(creation_succeeded) == creation_succeeded

\* Variant: the amount is added to whatever entry the key has by then.
RestoreEntry_Adds(m, signer, amount) ==
    MapInsert(m, signer, saturating_add(MapGetOr(m, signer, 0), amount))

\* else { self.accounts.insert(env::signer_account_pk(), amount.into()) }
RestoreEntry(m, signer, amount) == MapInsert(m, signer, amount)

OnAccountCreatedAndClaimed(pred, signer, amount, results, id) ==
    IF ~FromContract(pred)
    THEN PanicIn([Call(Claimed, pred, "-", "-", "-", 0) EXCEPT !.id = id],
                 "Callback can only be called from the contract")
    ELSE IF promise_results_count(results) # 1
    THEN PanicIn([Call(Claimed, pred, "-", "-", "-", 0) EXCEPT !.id = id],
                 "Contract expected a result on the callback")
    ELSE LET creation_succeeded == is_promise_success(results) IN
         /\ last' = [Call(Claimed, pred, signer, "-", "-", 0)
                     EXCEPT !.amount = amount, !.id = id,
                            !.ret = Bool(creation_succeeded)]
         /\ IF ClaimedDeletesKey(creation_succeeded)
            THEN /\ keys' = keys \ {signer}
                 /\ revokes' = [revokes EXCEPT ![signer] = @ + 1]
            ELSE UNCHANGED <<keys, revokes>>
         /\ IF creation_succeeded
            THEN /\ finalized' = finalized \cup {signer}
                 /\ UNCHANGED accounts
            ELSE /\ accounts' = RestoreEntry(accounts, signer, amount)
                 /\ UNCHANGED finalized
         /\ UNCHANGED <<sends, debited>>

(***************************************************************************)
(* Host: resolution of a dispatched promise and delivery of its            *)
(* continuation (exactly one result, the contract as predecessor, the      *)
(* signer of the originating transaction as signer).                       *)
(***************************************************************************)
Resolve(id, result) ==
    /\ id \in DOMAIN ops
    /\ ops[id].result = "pending"
    /\ ops' = [ops EXCEPT ![id].result = result]
    /\ last' = [Call("resolve", "-", "-", "-", "-", 0)
                EXCEPT !.id = id, !.ret = result]
    /\ UNCHANGED <<accounts, keys, dispatched, runs, sends, debited,
                   revokes, finalized>>

Deliver(id, kind) ==
    /\ id \in DOMAIN ops
    /\ ops[id].kind = kind
    /\ ops[id].result # "pending"
    /\ ops' = MapRemove(ops, id)
    /\ runs' = [runs EXCEPT ![id] = @ + 1]
    /\ UNCHANGED dispatched

CallbackCreated(id) ==
    /\ Deliver(id, "on_account_created")
    /\ OnAccountCreated(Contract, ops[id].caller, ops[id].amount,
                        <<ops[id].result>>, id)

CallbackClaimed(id) ==
    /\ Deliver(id, "on_account_created_and_claimed")
    /\ OnAccountCreatedAndClaimed(Contract, ops[id].signer, ops[id].amount,
                                  <<ops[id].result>>, id)

\* The continuations are public methods: a transaction may name them
\* directly, and then no promise result is visible.
CallOnAccountCreated(pred, predecessor_account_id, amount) ==
    /\ OnAccountCreated(pred, predecessor_account_id, amount, <<>>, 0)
    /\ UNCHANGED <<ops, dispatched, runs>>

CallOnAccountCreatedAndClaimed(pred, signer, amount) ==
    /\ OnAccountCreatedAndClaimed(pred, signer, amount, <<>>, 0)
    /\ UNCHANGED <<ops, dispatched, runs>>

(***************************************************************************)
(* get_key_balance, get_key_information                                    *)
(***************************************************************************)
\* self.accounts.get(&key).expect("Key is missing")
GetKeyBalance(key) ==
    IF key \notin DOMAIN accounts
    THEN Panic(Call("get_key_balance", "-", "-", key, "-", 0), "Key is missing")
    ELSE /\ last' = [Call("get_key_balance", "-", "-", key, "-", 0)
                     EXCEPT !.amount = accounts[key]]
         /\ UNCHANGED <<accounts, keys, ops, dispatched, runs, sends, debited,
                        revokes, finalized>>

\* Variant: a missing key reads as a balance of zero.
KeyInformation_Default(m, key) == <<"Ok", MapGetOr(m, key, 0)>>

\* match self.accounts.get(&key) { Some(balance) => Ok(KeyInfo { balance }),
\*                                 None => Err("Key is missing") }
KeyInformation(m, key) ==
    IF key \in DOMAIN m THEN <<"Ok", m[key]>> ELSE <<"Err: Key is missing", 0>>

\* The Result is the return value of the method: it does not panic.
GetKeyInformation(key) ==
    LET res == KeyInformation(accounts, key) IN
    /\ last' = [Call("get_key_information", "-", "-", key, "-", 0)
                EXCEPT !.ret = res[1], !.amount = res[2]]
    /\ UNCHANGED <<accounts, keys, ops, dispatched, runs, sends, debited,
                   revokes, finalized>>

(***************************************************************************)
(* Specification                                                           *)
(***************************************************************************)
\* The escrow flow (send, claim, create_account_and_claim and its
\* continuation) and the provisioning flow (create_account,
\* create_account_advanced and their continuation) share no contract state:
\* the provisioning calls never touch accounts or keys and the escrow calls
\* never touch a provisioning promise.  Each flow has its own specification.
Results == {"Successful", "Failed"}

Next ==
    \/ \E pred \in Callers, k \in PublicKeys, d \in Deposits : Send(pred, k, d)
    \/ \E pred \in Callers, k \in PublicKeys, a \in AccountIds : Claim(pred, k, a)
    \/ \E pred \in Callers, k \in PublicKeys, a \in AccountIds :
          CreateAccountAndClaim(pred, k, a)
    \/ \E id \in OpIds, r \in Results : Resolve(id, r)
    \/ \E id \in OpIds : CallbackClaimed(id)
    \/ \E pred \in Callers, k \in PublicKeys, d \in DirectAmounts :
          CallOnAccountCreatedAndClaimed(pred, k, d)

Spec == Init /\ [][Next]_vars

ProvisionNext ==
    \/ \E pred \in Callers, k \in PublicKeys, d \in Deposits : Send(pred, k, d)
    \/ \E pred \in Callers, a \in AccountIds, d \in Deposits :
          CreateAccount(pred, a, d)
    \/ \E pred \in Callers, a \in AccountIds, o \in SUBSET OptionFields,
          d \in Deposits : CreateAccountAdvanced(pred, a, o, d)
    \/ \E id \in OpIds, r \in Results : Resolve(id, r)
    \/ \E id \in OpIds : CallbackCreated(id)
    \/ \E pred \in Callers, c \in Callers, d \in DirectAmounts :
          CallOnAccountCreated(pred, c, d)

ProvisionSpec == Init /\ [][ProvisionNext]_vars

\* Every entry point of the contract, the two flows interleaved, on a
\* narrower choice of attached deposits and options.
GuardDeposits == {ACCESS_KEY_ALLOWANCE, ACCESS_KEY_ALLOWANCE + 1}

GuardOptions == {{}, {"limited_access_keys"}}

GuardNext ==
    \/ \E pred \in Callers, k \in PublicKeys, d \in GuardDeposits :
          Send(pred, k, d)
    \/ \E pred \in Callers, k \in PublicKeys, a \in AccountIds : Claim(pred, k, a)
    \/ \E pred \in Callers, k \in PublicKeys, a \in AccountIds :
          CreateAccountAndClaim(pred, k, a)
    \/ \E pred \in Callers, a \in AccountIds :
          CreateAccount(pred, a, ACCESS_KEY_ALLOWANCE + 1)
    \/ \E pred \in Callers, a \in AccountIds, o \in GuardOptions :
          CreateAccountAdvanced(pred, a, o, ACCESS_KEY_ALLOWANCE + 1)
    \/ \E id \in OpIds, r \in Results : Resolve(id, r)
    \/ \E id \in OpIds : CallbackClaimed(id)
    \/ \E id \in OpIds : CallbackCreated(id)
    \/ \E pred \in Callers, k \in PublicKeys, d \in DirectAmounts :
          CallOnAccountCreatedAndClaimed(pred, k, d)
    \/ \E pred \in Callers, c \in Callers, d \in DirectAmounts :
          CallOnAccountCreated(pred, c, d)
    \/ \E k \in PublicKeys : GetKeyBalance(k)
    \/ \E k \in PublicKeys : GetKeyInformation(k)

GuardSpec == Init /\ [][GuardNext]_vars

\* The host resolves every dispatched promise and then delivers its
\* continuation.
Fairness ==
    \A id \in OpIds : /\ WF_vars(\E r \in Results : Resolve(id, r))
                      /\ WF_vars(CallbackClaimed(id))

FairSpec == Spec /\ Fairness


(***************************************************************************)
(* Properties                                                              *)
(***************************************************************************)
\* A create_account_and_claim signed by k is in flight.
InFlight(k) == \E id \in DOMAIN ops : ops[id].kind = Claimed /\ ops[id].signer = k

\* The step is an accepted send to k.
IsSend(k) == last'.op = "send" /\ last'.outcome = "ok" /\ last'.key = k

\* The step is the host's delivery of on_account_created_and_claimed for
\* promise id.
IsClaimedCallback(id) ==
    /\ last'.op = Claimed
    /\ last'.id = id
    /\ id \in DOMAIN ops
    /\ id \notin DOMAIN ops'

\* The step is a compensation for k: the continuation of a failed
\* create_account_and_claim signed by k.
IsCompensation(k) ==
    \E id \in DOMAIN ops : /\ IsClaimedCallback(id)
                           /\ ops[id].signer = k
                           /\ ops[id].result = "Failed"

\* The step is a claim or create_account_and_claim signed by k that passed
\* the caller check and the account id check.
IsClaimAttempt(k) ==
    /\ last'.op \in {"claim", "create_account_and_claim"}
    /\ last'.signer = k
    /\ last'.pred = Contract
    /\ IsValidAccountId(last'.account)

LedgerUnchanged == UNCHANGED <<accounts, keys, ops, dispatched>>

----------------------------------------------------------------------------
\* C1: send(k) with deposit d > ACCESS_KEY_ALLOWANCE is accepted, leaves the
\* entry of k at its previous value (0 if absent) plus d - ACCESS_KEY_ALLOWANCE
\* when that does not overflow, and grants the access key for k; so n
\* successive sends d1..dn to a key never claimed leave d1+...+dn - n*R.
C1_Step ==
    last'.op = "send" /\ last'.deposit > ACCESS_KEY_ALLOWANCE =>
        LET k == last'.key
            d == last'.deposit
            v == MapGetOr(accounts, k, 0)
        IN  /\ last'.outcome = "ok"
            /\ k \in keys'
            /\ k \in DOMAIN accounts'
            /\ v + d <= MaxAmount =>
                   accounts'[k] = v + d - ACCESS_KEY_ALLOWANCE
            /\ \A k2 \in PublicKeys \ {k} :
                   /\ (k2 \in DOMAIN accounts') = (k2 \in DOMAIN accounts)
                   /\ k2 \in DOMAIN accounts => accounts'[k2] = accounts[k2]

\* last.amount of an accepted send is the value it read (0 if absent).
C1_Successive ==
    /\ last.op = "send" /\ last.outcome = "ok"
    /\ last'.op = "send" /\ last'.outcome = "ok"
    /\ last'.key = last.key
    /\ last.amount + last.deposit + last'.deposit
          - ACCESS_KEY_ALLOWANCE <= MaxAmount
    => accounts'[last.key] = last.amount + last.deposit + last'.deposit
                               - 2 * ACCESS_KEY_ALLOWANCE

C1_SendAccumulates == [][C1_Step /\ C1_Successive]_vars

\* The second of two sends to a key never claimed: 3 and then 4.
C1_Witness ==
    \E k \in PublicKeys :
        /\ last.op = "send" /\ last.key = k /\ last.outcome = "ok"
        /\ last.amount = 1 /\ last.deposit = 4
        /\ sends[k] = 2 /\ k \notin debited
        /\ k \in keys
        /\ accounts[k] = 3

----------------------------------------------------------------------------
\* C2: create_account_and_claim binds the amount it removed from the ledger
\* to its continuation, and when the continuation runs on a failed result
\* the entry of the signing key is exactly that amount; no other entry
\* changes.
C2_Step ==
    /\ last'.op = "create_account_and_claim" /\ last'.outcome = "ok" =>
          LET k == last'.signer
              id == last'.id
          IN  /\ k \in DOMAIN accounts
              /\ id \in DOMAIN ops' /\ id \notin DOMAIN ops
              /\ ops'[id].kind = Claimed
              /\ ops'[id].signer = k
              /\ ops'[id].amount = accounts[k]
    /\ \A id \in DOMAIN ops \cap DOMAIN ops' :
          /\ ops'[id].amount = ops[id].amount
          /\ ops'[id].signer = ops[id].signer
    /\ \A id \in DOMAIN ops :
          IsClaimedCallback(id) /\ ops[id].result = "Failed" =>
              LET k == ops[id].signer IN
              /\ k \in DOMAIN accounts'
              /\ accounts'[k] = ops[id].amount
              /\ \A k2 \in PublicKeys \ {k} :
                     /\ (k2 \in DOMAIN accounts') = (k2 \in DOMAIN accounts)
                     /\ k2 \in DOMAIN accounts => accounts'[k2] = accounts[k2]

C2_CompensationRoundTrip == [][C2_Step]_vars

\* A compensation that ran although a send had re-created the entry in the
\* meantime.
C2_Witness ==
    \E k \in PublicKeys :
        /\ last.op = Claimed /\ last.id # 0 /\ last.ret = "false"
        /\ last.signer = k
        /\ sends[k] = 2
        /\ k \in DOMAIN accounts /\ accounts[k] = last.amount

----------------------------------------------------------------------------
\* C3: every create_account_and_claim that debits registers one
\* continuation; the continuation runs at most once, only on a resolved
\* promise, and then does exactly one of: finalize (delete the key) on a
\* successful result, compensate (restore the entry) on a failed one; under
\* fair resolution and delivery it eventually runs.
C3_Step ==
    /\ last'.op = "create_account_and_claim" /\ last'.outcome = "ok" =>
          /\ dispatched' = dispatched + 1
          /\ DOMAIN ops' = DOMAIN ops \cup {dispatched'}
          /\ ops'[dispatched'].result = "pending"
          /\ runs[dispatched'] = 0
          /\ last'.signer \notin DOMAIN accounts'
    /\ \A id \in OpIds :
          runs'[id] # runs[id] =>
              /\ id \in DOMAIN ops
              /\ ops[id].result # "pending"
              /\ runs'[id] = runs[id] + 1
              /\ IsClaimedCallback(id)
              /\ last'.outcome = "ok"
              /\ LET k == ops[id].signer IN
                 \/ /\ ops[id].result = "Successful"
                    /\ last'.ret = "true"
                    /\ revokes'[k] = revokes[k] + 1
                    /\ keys' = keys \ {k}
                    /\ accounts' = accounts
                 \/ /\ ops[id].result = "Failed"
                    /\ last'.ret = "false"
                    /\ accounts' = MapInsert(accounts, k, ops[id].amount)
                    /\ keys' = keys
                    /\ revokes' = revokes
    /\ DOMAIN ops' # DOMAIN ops =>
          \/ last'.op = "create_account_and_claim"
          \/ \E id \in DOMAIN ops : IsClaimedCallback(id) /\ runs'[id] = 1

C3_Inv ==
    \A id \in OpIds :
        /\ runs[id] <= 1
        /\ id \in DOMAIN ops => runs[id] = 0 /\ id <= dispatched
        /\ id <= dispatched /\ id \notin DOMAIN ops => runs[id] = 1
        /\ id > dispatched => runs[id] = 0

C3_SettledExactlyOnce ==
    /\ [][C3_Step]_vars
    /\ []C3_Inv
    /\ \A id \in OpIds : (id \in DOMAIN ops) ~> (runs[id] = 1)

\* Both promises of the one key sponsored are settled: the first was
\* compensated, the retry finalized.
C3_Witness ==
    /\ dispatched = 2 /\ ops = <<>>
    /\ runs[1] = 1 /\ runs[2] = 1
    /\ \E k \in PublicKeys : /\ k \in finalized
                             /\ k \notin DOMAIN accounts
                             /\ k \notin keys
                             /\ sends[k] = 1
                             /\ \A k2 \in PublicKeys \ {k} : sends[k2] = 0

----------------------------------------------------------------------------
\* C4 as stated: once claim or create_account_and_claim has debited k the
\* ledger has no entry for k, and an entry reappears only through a
\* compensation.
C4_DebitRemoves ==
    \A k \in PublicKeys :
        /\ last'.op \in {"claim", "create_account_and_claim"}
        /\ last'.outcome = "ok"
        /\ last'.signer = k
        => k \notin DOMAIN accounts'

C4_Reappears(k) ==
    k \in debited /\ k \notin DOMAIN accounts /\ k \in DOMAIN accounts'

C4_Original ==
    [][/\ C4_DebitRemoves
       /\ \A k \in PublicKeys : C4_Reappears(k) => IsCompensation(k)]_vars

\* C4 amended: once claim or create_account_and_claim has debited k the
\* ledger has no entry for k until a compensation restores it or a new
\* send(k) creates one.
C4_ClaimDrains ==
    [][/\ C4_DebitRemoves
       /\ \A k \in PublicKeys :
             C4_Reappears(k) => IsCompensation(k) \/ IsSend(k)]_vars

C4_Witness ==
    \E k \in PublicKeys :
        /\ k \in debited
        /\ last.op = "send" /\ last.key = k /\ last.outcome = "ok"
        /\ last.amount = 0
        /\ sends[k] = 2
        /\ k \in DOMAIN accounts
        /\ accounts[k] = last.deposit - ACCESS_KEY_ALLOWANCE


----------------------------------------------------------------------------
\* The last call was a claim or create_account_and_claim signed by k that
\* passed the caller check and the account id check.
WasClaimAttempt(k) ==
    /\ last.op \in {"claim", "create_account_and_claim"}
    /\ last.signer = k
    /\ last.pred = Contract
    /\ IsValidAccountId(last.account)

\* C5 as stated: once on_account_created_and_claimed has run for k with a
\* successful result, the access key for k no longer exists and every later
\* claim or create_account_and_claim signed by k fails with "Unexpected
\* public key".
C5_Original ==
    \A k \in finalized :
        /\ k \notin keys
        /\ WasClaimAttempt(k) => last.outcome = "Unexpected public key"

\* C5 amended: once on_account_created_and_claimed has run for k with a
\* successful result, the access key for k does not exist until a later
\* send(k) grants it again; and for as long as the ledger has no entry for k,
\* which lasts until a send(k) or the compensation of another pending claim
\* of k creates one, every claim or create_account_and_claim signed by k
\* fails with "Unexpected public key" and changes nothing.
C5_Step ==
    /\ \A id \in DOMAIN ops :
          IsClaimedCallback(id) /\ ops[id].result = "Successful" =>
              /\ last'.ret = "true"
              /\ ops[id].signer \notin keys'
              /\ ops[id].signer \in finalized'
    /\ \A k \in finalized :
          /\ k \notin keys /\ k \in keys' => IsSend(k)
          /\ k \notin DOMAIN accounts /\ k \in DOMAIN accounts' =>
                 IsSend(k) \/ IsCompensation(k)
          /\ IsClaimAttempt(k) /\ k \notin DOMAIN accounts =>
                 /\ last'.outcome = "Unexpected public key"
                 /\ LedgerUnchanged

C5_FinalizationExclusive == [][C5_Step]_vars

C5_Witness ==
    \E k \in finalized :
        /\ WasClaimAttempt(k)
        /\ last.outcome = "Unexpected public key"
        /\ k \notin keys
        /\ ~InFlight(k)

----------------------------------------------------------------------------
\* C6: claim(dest) signed by k, called by the contract with a valid dest,
\* on an entry a: removes the entry, dispatches a transfer of exactly a to
\* dest, deletes the access key of k, registers no continuation and touches
\* no other key; a claim signed by k right after it fails with "Unexpected
\* public key" and changes nothing.
C6_Step ==
    /\ \A k \in PublicKeys :
          last'.op = "claim" /\ IsClaimAttempt(k) /\ k \in DOMAIN accounts =>
              /\ last'.outcome = "ok"
              /\ last'.transfer = <<last'.account, accounts[k]>>
              /\ accounts' = MapRemove(accounts, k)
              /\ keys' = keys \ {k}
              /\ revokes' = [revokes EXCEPT ![k] = @ + 1]
              /\ ops' = ops
              /\ dispatched' = dispatched
    /\ last.op = "claim" /\ last.outcome = "ok"
       /\ last'.op = "claim" /\ IsClaimAttempt(last.signer)
       => /\ last'.outcome = "Unexpected public key"
          /\ last'.transfer = NoTransfer
          /\ LedgerUnchanged
          /\ UNCHANGED revokes

C6_PlainClaim == [][C6_Step]_vars

\* The re-claim after a plain claim.
C6_Witness ==
    \E k \in PublicKeys :
        /\ last.op = "claim" /\ WasClaimAttempt(k)
        /\ last.outcome = "Unexpected public key"
        /\ dispatched = 0
        /\ k \in debited /\ revokes[k] = 1
        /\ sends[k] = 1
        /\ k \notin keys

----------------------------------------------------------------------------
\* C7: a key that has its access key has a ledger entry or a
\* create_account_and_claim in flight; and per key no more delete_key have
\* been dispatched than add_access_key (one per accepted send).
C7_CapabilityImpliesEscrow ==
    \A k \in PublicKeys :
        /\ k \in keys => k \in DOMAIN accounts \/ InFlight(k)
        /\ revokes[k] <= sends[k]

\* A key granted, revoked by a claim, granted again and now in flight.
C7_Witness ==
    \E k \in PublicKeys :
        /\ k \in keys
        /\ k \notin DOMAIN accounts
        /\ InFlight(k)
        /\ revokes[k] = 1
        /\ sends[k] = 2

----------------------------------------------------------------------------
\* C8: on a failed result on_account_created_and_claimed returns false
\* without panicking and dispatches no delete_key; a claim or
\* create_account_and_claim signed by the same key right after it is
\* accepted and debits the restored amount.
C8_Step ==
    /\ \A id \in DOMAIN ops :
          IsClaimedCallback(id) /\ ops[id].result = "Failed" =>
              /\ last'.outcome = "ok"
              /\ last'.ret = "false"
              /\ keys' = keys
              /\ revokes' = revokes
    /\ last.op = Claimed /\ last.id # 0 /\ last.ret = "false"
       /\ IsClaimAttempt(last.signer)
       => /\ last'.outcome = "ok"
          /\ last'.amount = last.amount
          /\ last.signer \notin DOMAIN accounts'

C8_FailedClaimRetryable == [][C8_Step]_vars

\* The retry: the only key sponsored, sponsored once, is debited again
\* after its first create_account_and_claim has been compensated.
C8_Witness ==
    \E k \in PublicKeys :
        /\ WasClaimAttempt(k) /\ last.outcome = "ok"
        /\ last.op = "create_account_and_claim" /\ last.id = 2
        /\ sends[k] = 1
        /\ \A k2 \in PublicKeys \ {k} : sends[k2] = 0
        /\ runs[1] = 1
        /\ k \notin finalized
        /\ k \in keys
        /\ last.amount = 2

----------------------------------------------------------------------------
IsCreatedCallback(id) ==
    /\ last'.op = Created
    /\ last'.id = id
    /\ id \in DOMAIN ops
    /\ id \notin DOMAIN ops'

\* C9: create_account and create_account_advanced bind their caller and
\* attached deposit to on_account_created; run on a failed result it
\* transfers exactly that amount to that caller and returns false, on a
\* successful one it transfers nothing and returns true; it runs once per
\* promise, no other call of it refunds, and the ledger and keys do not
\* change.
C9_Step ==
    /\ last'.op \in {"create_account", "create_account_advanced"}
       /\ last'.outcome = "ok"
       => LET id == last'.id IN
          /\ id \in DOMAIN ops' /\ id \notin DOMAIN ops
          /\ ops'[id].kind = Created
          /\ ops'[id].caller = last'.pred
          /\ ops'[id].amount = last'.deposit
    /\ \A id \in DOMAIN ops \cap DOMAIN ops' :
          /\ ops'[id].caller = ops[id].caller
          /\ ops'[id].amount = ops[id].amount
    /\ \A id \in DOMAIN ops :
          IsCreatedCallback(id) =>
              /\ runs[id] = 0 /\ runs'[id] = 1
              /\ last'.outcome = "ok"
              /\ ops[id].result = "Failed" =>
                     /\ last'.transfer = <<ops[id].caller, ops[id].amount>>
                     /\ last'.ret = "false"
              /\ ops[id].result = "Successful" =>
                     /\ last'.transfer = NoTransfer
                     /\ last'.ret = "true"
    /\ last'.op = Created =>
          /\ accounts' = accounts
          /\ keys' = keys
          /\ last'.transfer # NoTransfer =>
                 \E id \in DOMAIN ops : IsCreatedCallback(id)

C9_RefundExact == [][C9_Step]_vars

C9_Witness ==
    /\ last.op = Created
    /\ last.ret = "false"
    /\ last.transfer = <<"alice", 3>>
    /\ runs[1] = 1
    /\ accounts # <<>>

----------------------------------------------------------------------------
\* C10: create_account_advanced panics, dispatching nothing and changing
\* nothing, when none of the three options is present, and otherwise
\* dispatches one promise with the on_account_created continuation.
C10_Step ==
    last'.op = "create_account_advanced" =>
        IF last'.options = {}
        THEN /\ last'.outcome # "ok"
             /\ last'.id = 0
             /\ LedgerUnchanged
        ELSE /\ last'.outcome = "ok"
             /\ dispatched' = dispatched + 1
             /\ last'.id = dispatched'
             /\ DOMAIN ops' = DOMAIN ops \cup {dispatched'}
             /\ ops'[dispatched'].kind = Created
             /\ ops'[dispatched'].result = "pending"

C10_AdvancedNeedsOption == [][C10_Step]_vars

C10_Witness ==
    /\ last.op = "create_account_advanced"
    /\ last.options = {"limited_access_keys"}
    /\ last.outcome = "ok"
    /\ last.id \in DOMAIN ops
    /\ ops[last.id].kind = Created

----------------------------------------------------------------------------
\* C11: send with an attached deposit d <= ACCESS_KEY_ALLOWANCE (d equal to
\* the allowance included) panics on the deposit assertion; the ledger and
\* the access keys are as before and no add_access_key is dispatched.
C11_Step ==
    last'.op = "send" /\ last'.deposit <= ACCESS_KEY_ALLOWANCE =>
        /\ last'.outcome =
               "Attached deposit must be greater than ACCESS_KEY_ALLOWANCE"
        /\ LedgerUnchanged
        /\ sends' = sends

C11_SendBelowAllowance == [][C11_Step]_vars

\* A send of exactly the allowance, refused while a key holds an entry.
C11_Witness ==
    /\ last.op = "send"
    /\ last.deposit = ACCESS_KEY_ALLOWANCE
    /\ last.outcome # "ok"
    /\ \E k \in PublicKeys : k \in DOMAIN accounts /\ k \in keys

----------------------------------------------------------------------------
\* C12: claim, create_account_and_claim and create_account given the
\* malformed account id "XYZ" panic before they debit or dispatch: such a
\* call is never accepted, and after it every ledger entry, every access
\* key and the promises in flight are as before.
C12_Step ==
    last'.op \in {"claim", "create_account_and_claim", "create_account"} =>
        /\ last'.outcome = "ok" => last'.account # "XYZ"
        /\ last'.account = "XYZ" => last'.outcome = "Invalid account id"
        /\ last'.outcome # "ok" =>
               /\ LedgerUnchanged
               /\ last'.transfer = NoTransfer
               /\ UNCHANGED <<debited, revokes>>

C12_InvalidAccountRefused == [][C12_Step]_vars

\* create_account_and_claim to "XYZ", refused while a key holds an entry
\* and its access key.
C12_Witness ==
    /\ last.op = "create_account_and_claim"
    /\ last.account = "XYZ"
    /\ last.outcome = "Invalid account id"
    /\ \E k \in PublicKeys : k \in DOMAIN accounts /\ k \in keys

----------------------------------------------------------------------------
\* C13: get_key_balance and get_key_information change nothing; for a key
\* with an entry both report the entry's amount; for a key without one
\* get_key_balance panics with "Key is missing" and get_key_information
\* returns an Err value without panicking.
C13_Step ==
    last'.op \in {"get_key_balance", "get_key_information"} =>
        LET key == last'.key IN
        /\ UNCHANGED <<accounts, keys, ops, dispatched, runs, sends, debited,
                       revokes, finalized>>
        /\ key \in DOMAIN accounts =>
               /\ last'.outcome = "ok"
               /\ last'.amount = accounts[key]
               /\ last'.op = "get_key_information" => last'.ret = "Ok"
        /\ key \notin DOMAIN accounts =>
               IF last'.op = "get_key_balance"
               THEN last'.outcome = "Key is missing"
               ELSE /\ last'.outcome = "ok"
                    /\ last'.ret = "Err: Key is missing"

\* get_key_information right after get_key_balance of the same key.
C13_Agree ==
    /\ last.op = "get_key_balance" /\ last.outcome = "ok"
    /\ last'.op = "get_key_information" /\ last'.key = last.key
    => last'.ret = "Ok" /\ last'.amount = last.amount

C13_GettersPure == [][C13_Step /\ C13_Agree]_vars

\* get_key_information of a key whose entry a create_account_and_claim in
\* flight has removed, while the other key holds an entry.
C13_Witness ==
    \E k \in PublicKeys :
        /\ last.op = "get_key_information" /\ last.key = k
        /\ last.ret = "Err: Key is missing"
        /\ last.outcome = "ok"
        /\ InFlight(k)
        /\ \E k2 \in PublicKeys \ {k} : k2 \in DOMAIN accounts

----------------------------------------------------------------------------
\* C14: when on_account_created_and_claimed runs on a failed result for key
\* k and amount a, the entry of k afterwards is its entry right before the
\* continuation (0 if absent) plus a.
C14_Original ==
    [][\A id \in DOMAIN ops :
          IsClaimedCallback(id) /\ ops[id].result = "Failed" =>
              LET k == ops[id].signer IN
              /\ k \in DOMAIN accounts'
              /\ accounts'[k] = saturating_add(MapGetOr(accounts, k, 0),
                                               ops[id].amount)]_vars

----------------------------------------------------------------------------
\* C15: claim, create_account_and_claim, on_account_created and
\* on_account_created_and_claimed called by a predecessor other than the
\* contract panic on the predecessor assertion: ledger, keys and promises
\* are as before and no transfer, refund or delete_key is dispatched.  send,
\* create_account and create_account_advanced are accepted from any
\* predecessor: they are refused only for the deposit, the account id and
\* the options respectively.
C15_Restricted ==
    {"claim", "create_account_and_claim", Created, Claimed}

C15_Message(op) ==
    CASE op = "claim" -> "Claim only can come from this account"
      [] op = "create_account_and_claim" ->
            "Create account and claim only can come from this account"
      [] OTHER -> "Callback can only be called from the contract"

C15_Step ==
    /\ last'.op \in C15_Restricted =>
          /\ last'.outcome = "ok" => last'.pred = Contract
          /\ last'.pred # Contract =>
                 /\ last'.outcome = C15_Message(last'.op)
                 /\ last'.transfer = NoTransfer
                 /\ LedgerUnchanged
                 /\ UNCHANGED <<runs, debited, revokes, finalized>>
    /\ last'.op = "send" /\ last'.deposit > ACCESS_KEY_ALLOWANCE =>
          last'.outcome = "ok"
    /\ last'.op = "create_account" /\ last'.account # "XYZ" =>
          last'.outcome = "ok"
    /\ last'.op = "create_account_advanced" /\ last'.options # {} =>
          last'.outcome = "ok"

C15_CallerRestricted == [][C15_Step]_vars

\* alice's claim is refused while a key holds an entry and a create_account
\* of alice's is in flight.
C15_Witness ==
    /\ last.op = "claim"
    /\ last.pred = "alice"
    /\ last.outcome = "Claim only can come from this account"
    /\ \E k \in PublicKeys : k \in DOMAIN accounts /\ k \in keys
    /\ \E id \in DOMAIN ops : ops[id].kind = Created /\ ops[id].caller = "alice"

----------------------------------------------------------------------------
\* C16: create_account_advanced given the malformed account id "XYZ" panics
\* before it dispatches anything, as create_account does.
C16_Original ==
    [][last'.op = "create_account_advanced" /\ last'.account = "XYZ" =>
           /\ last'.outcome # "ok"
           /\ LedgerUnchanged]_vars

----------------------------------------------------------------------------
\* C17: an accepted send(k) with deposit d on an entry of value v (0 if
\* absent) leaves the entry at min(MaxAmount, v + (d - ACCESS_KEY_ALLOWANCE))
\* and never below v.
C17_Min(a, b) == IF a < b THEN a ELSE b

C17_Original ==
    [][last'.op = "send" /\ last'.outcome = "ok" =>
           LET k == last'.key
               v == MapGetOr(accounts, k, 0)
           IN  /\ accounts'[k] =
                      C17_Min(MaxAmount,
                              v + (last'.deposit - ACCESS_KEY_ALLOWANCE))
               /\ accounts'[k] >= v]_vars

----------------------------------------------------------------------------
\* C18: on_account_created and on_account_created_and_claimed called with
\* no promise result (a direct call) panic: no key is deleted, no entry
\* restored, no refund dispatched; delivered with the one result of their
\* promise they return true exactly when that result is successful.
C18_Step ==
    last'.op \in {Created, Claimed} =>
        IF last'.id = 0
        THEN /\ last'.outcome # "ok"
             /\ last'.pred = Contract =>
                    last'.outcome = "Contract expected a result on the callback"
             /\ last'.transfer = NoTransfer
             /\ LedgerUnchanged
             /\ UNCHANGED <<runs, revokes, finalized>>
        ELSE /\ last'.id \in DOMAIN ops
             /\ last'.outcome = "ok"
             /\ last'.ret = Bool(ops[last'.id].result = "Successful")

C18_OneResult == [][C18_Step]_vars

\* The contract's direct call of on_account_created is refused while a
\* failed create_account of alice's awaits its continuation.
C18_Witness ==
    /\ last.op = Created
    /\ last.pred = Contract
    /\ last.id = 0
    /\ last.outcome = "Contract expected a result on the callback"
    /\ \E id \in DOMAIN ops : /\ ops[id].kind = Created
                               /\ ops[id].result = "Failed"
                               /\ ops[id].caller = "alice"

----------------------------------------------------------------------------
\* The amounts create_account_and_claim has removed for k and whose
\* promise is still in flight.
InFlightAmount(o, k) ==
    LET RECURSIVE Sum(_)
        Sum(S) == IF S = {} THEN 0
                  ELSE LET id == CHOOSE x \in S : TRUE
                       IN  o[id].amount + Sum(S \ {id})
    IN  Sum({id \in DOMAIN o : o[id].kind = Claimed /\ o[id].signer = k})

Held(m, o, k) == MapGetOr(m, k, 0) + InFlightAmount(o, k)

\* C19: for each key k, the net amounts sponsored (deposit minus
\* ACCESS_KEY_ALLOWANCE per accepted send) equal the entry of k (0 if
\* absent) plus the amounts in flight for k plus the amounts transferred out
\* for k.  The equation holds initially (all sums 0), so it holds in every
\* reachable state exactly when every step changes both sides alike: the
\* entry plus the amounts in flight grow by d - ACCESS_KEY_ALLOWANCE on an
\* accepted send(k, d), shrink by the amount transferred on a claim or on a
\* successful create_account_and_claim of k, and stay otherwise.  A send
\* whose addition saturates is left out of the statement.
C19_Sponsored(k) ==
    IF IsSend(k) THEN last'.deposit - ACCESS_KEY_ALLOWANCE ELSE 0

C19_Paid(k) ==
    IF last'.op = "claim" /\ last'.outcome = "ok" /\ last'.signer = k
    THEN last'.transfer[2]
    ELSE IF \E id \in DOMAIN ops : /\ IsClaimedCallback(id)
                                    /\ ops[id].signer = k
                                    /\ ops[id].result = "Successful"
    THEN last'.amount
    ELSE 0

C19_Saturates ==
    /\ last'.op = "send" /\ last'.outcome = "ok"
    /\ last'.amount + last'.deposit > MaxAmount

C19_Original ==
    [][~C19_Saturates =>
          \A k \in PublicKeys :
              Held(accounts', ops', k) =
                  Held(accounts, ops, k) + C19_Sponsored(k) - C19_Paid(k)]_vars

----------------------------------------------------------------------------
\* C20: every key that has a ledger entry has its access key.
C20_Original == \A k \in DOMAIN accounts : k \in keys

----------------------------------------------------------------------------
\* C21: each key has at most one create_account_and_claim promise in
\* flight, and while one is in flight for k every claim or
\* create_account_and_claim signed by k fails with "Unexpected public key"
\* and changes nothing, whatever sends to k have been accepted in between.
C21_Pending(k) ==
    {id \in DOMAIN ops : ops[id].kind = Claimed /\ ops[id].signer = k}

C21_Step ==
    \A k \in PublicKeys :
        InFlight(k) /\ IsClaimAttempt(k) =>
            /\ last'.outcome = "Unexpected public key"
            /\ LedgerUnchanged

C21_Original ==
    /\ [](\A k \in PublicKeys : Cardinality(C21_Pending(k)) <= 1)
    /\ [][C21_Step]_vars

====
